---- MODULE Spec2Model ----
(***************************************************************************)
(* Profile-picture upload gateway (src/server.js): the multer validation    *)
(* gate, the key derivation, the content-type resolution, and the three     *)
(* object-store calls (put, list, sign) of the Express handlers.            *)
(*                                                                          *)
(* JavaScript strings are sequences of one-character strings, so that       *)
(* toLowerCase, path.extname, replace and the regular expressions are       *)
(* computed character by character.  The object store and multer are        *)
(* external collaborators: a put or a sign call either succeeds or fails,   *)
(* chosen nondeterministically; multer rejects a file above limits.fileSize.*)
(***************************************************************************)
EXTENDS Integers, Sequences, FiniteSets, TLC

VARIABLES
    proc,      \* "starting" | "listening" | "exited": the node process
    env,       \* process.env: [complete, S3_PUBLIC_BASE_URL]
    store,     \* the bucket: key -> [Body, ContentType, CacheControl]
    req,       \* the requests received so far, in arrival order
    uuids,     \* how many randomUUID() values have been drawn
    faults     \* the messages of the errors the object-store client may reject with

vars == <<proc, env, store, req, uuids, faults>>

(***************************************************************************)
(* Bounds of the model.                                                     *)
(***************************************************************************)
MaxReq == 3

(***************************************************************************)
(* Strings.                                                                 *)
(***************************************************************************)
UpperChars == <<"A", "B", "C", "D", "E", "F", "G", "H", "I", "J", "K", "L", "M",
                "N", "O", "P", "Q", "R", "S", "T", "U", "V", "W", "X", "Y", "Z">>
LowerChars == <<"a", "b", "c", "d", "e", "f", "g", "h", "i", "j", "k", "l", "m",
                "n", "o", "p", "q", "r", "s", "t", "u", "v", "w", "x", "y", "z">>

ToLowerChar(c) ==
    IF \E i \in DOMAIN UpperChars : UpperChars[i] = c
    THEN LowerChars[CHOOSE i \in DOMAIN UpperChars : UpperChars[i] = c]
    ELSE c

\* String.prototype.toLowerCase
ToLowerCase(s) == [i \in 1..Len(s) |-> ToLowerChar(s[i])]

\* String.prototype.startsWith
StartsWith(s, p) == Len(s) >= Len(p) /\ SubSeq(s, 1, Len(p)) = p

\* String.prototype.lastIndexOf, 1-based; 0 when c does not occur
LastIndexOf(s, c) ==
    IF \E i \in 1..Len(s) : s[i] = c
    THEN CHOOSE i \in 1..Len(s) : s[i] = c /\ \A j \in (i+1)..Len(s) : s[j] # c
    ELSE 0

\* s.replace(/\//g, '-')
ReplaceSlashes(s) == [i \in 1..Len(s) |-> IF s[i] = "/" THEN "-" ELSE s[i]]

\* s.replace(/\/$/, ''): one trailing slash removed
StripTrailingSlash(s) ==
    IF Len(s) > 0 /\ s[Len(s)] = "/" THEN SubSeq(s, 1, Len(s) - 1) ELSE s

\* path.extname (posix): the text from the last "." of the last path component,
\* or "" when there is no ".", when the "." is the component's first character,
\* or when the component is "..".
Extname(p) ==
    LET startPart == LastIndexOf(p, "/") + 1
        base      == SubSeq(p, startPart, Len(p))
        dot       == LastIndexOf(base, ".")
    IN  IF dot = 0 \/ dot = 1 THEN <<>>
        ELSE IF base = <<".", ".">> THEN <<>>
        ELSE SubSeq(base, dot, Len(base))

\* a || b on strings: the empty string is falsy
OrElse(a, b) == IF a # <<>> THEN a ELSE b

(***************************************************************************)
(* Program constants.                                                       *)
(***************************************************************************)
PROFILE_PREFIX == <<"p", "r", "o", "f", "i", "l", "e", "-", "p", "i", "c", "s">>

\* limits.fileSize
FileSizeLimit == 5 * 1024 * 1024

\* expiresIn of the upload handler's signed URL
UploadExpiresIn == 60 * 60 * 24 * 6

\* MaxKeys of the listing
MaxKeys == 100

CacheControl == "public, max-age=31536000"

ImageJpeg == <<"i", "m", "a", "g", "e", "/", "j", "p", "e", "g">>
ImageJpg == <<"i", "m", "a", "g", "e", "/", "j", "p", "g">>
ImagePjpeg == <<"i", "m", "a", "g", "e", "/", "p", "j", "p", "e", "g">>
ImagePng == <<"i", "m", "a", "g", "e", "/", "p", "n", "g">>
ImageGif == <<"i", "m", "a", "g", "e", "/", "g", "i", "f">>
ImageWebp == <<"i", "m", "a", "g", "e", "/", "w", "e", "b", "p">>

DotJpg == <<".", "j", "p", "g">>
DotJpeg == <<".", "j", "p", "e", "g">>
DotPng == <<".", "p", "n", "g">>
DotGif == <<".", "g", "i", "f">>
DotWebp == <<".", "w", "e", "b", "p">>

\* /^image\/(jpeg|jpg|pjpeg|png|gif|webp)$/i .test(m)
AllowedMimeTest(m) ==
    ToLowerCase(m) \in {ImageJpeg, ImageJpg, ImagePjpeg, ImagePng, ImageGif, ImageWebp}

AllowedExt == {DotJpg, DotJpeg, DotPng, DotGif, DotWebp}

\* /^image\// .test(m): case-sensitive
ImagePrefixTest(m) == StartsWith(m, <<"i", "m", "a", "g", "e", "/">>)

OnlyImagesMsg == "Only images (.jpeg, .jpg, .png, .gif, .webp) are allowed."
NoFileMsg == "No file uploaded. Use field name \"file\"."
FileTooLargeMsg == "File too large. Max 5 MB."

\* err.message.includes('Only images'), over the messages an error can carry here
IncludesOnlyImages(msg) == msg \in {OnlyImagesMsg}

(***************************************************************************)
(* Values exchanged with the clients and the object store.                  *)
(***************************************************************************)
\* A URL of a response: a string built by the server ("static"), a signed URL
\* obtained from getSignedUrl for a key and a lifetime ("signed"), or null.
StaticUrl(s) == [kind |-> "static", str |-> s, key |-> <<>>, expiresIn |-> 0]
SignedUrl(k, ttl) == [kind |-> "signed", str |-> <<>>, key |-> k, expiresIn |-> ttl]
NullUrl == [kind |-> "null", str |-> <<>>, key |-> <<>>, expiresIn |-> 0]
NoUrl == [kind |-> "undefined", str |-> <<>>, key |-> <<>>, expiresIn |-> 0]

NoBody ==
    [error |-> "", success |-> FALSE, url |-> NoUrl, key |-> <<>>,
     prefix |-> <<>>, count |-> 0, items |-> {}]

\* res.status(n).json({ error })
ErrorResponse(n, msg) == [status |-> n, body |-> [NoBody EXCEPT !.error = msg]]

\* res.status(201).json({ success: true, url, key })
CreatedResponse(url, key) ==
    [status |-> 201,
     body |-> [NoBody EXCEPT !.success = TRUE, !.url = url, !.key = key]]

\* res.json({ prefix, count, items })
ListResponse(prefix, items) ==
    [status |-> 200,
     body |-> [NoBody EXCEPT !.prefix = prefix, !.count = Cardinality(items),
                             !.items = items]]

NoResponse == [status |-> 0, body |-> NoBody]

\* a || b on error messages
MsgOr(a, b) == IF a # "" THEN a ELSE b

NoErr == [isError |-> FALSE, multer |-> FALSE, code |-> "", message |-> ""]
MulterError(code, msg) == [isError |-> TRUE, multer |-> TRUE, code |-> code, message |-> msg]
PlainError(msg) == [isError |-> TRUE, multer |-> FALSE, code |-> "", message |-> msg]

(***************************************************************************)
(* The multer gate: upload.single('file') with fileFilter and limits.       *)
(***************************************************************************)
\* fileFilter with the extension compared as written, not lower-cased
FileFilterCaseSensitive(file) ==
    \/ AllowedMimeTest(file.mimetype)
    \/ OrElse(Extname(OrElse(file.originalname, <<>>)), <<>>) \in AllowedExt

\* fileFilter: TRUE when cb(null, true)
FileFilter(file) ==
    \/ AllowedMimeTest(file.mimetype)
    \/ ToLowerCase(OrElse(Extname(OrElse(file.originalname, <<>>)), <<>>)) \in AllowedExt

\* upload.single('file') of a multer built without limits.fileSize
MulterSingleNoLimit(in) ==
    IF in.field = "none" THEN [err |-> NoErr, hasFile |-> FALSE]
    ELSE IF in.field # "file"
    THEN [err |-> MulterError("LIMIT_UNEXPECTED_FILE", "Unexpected field"), hasFile |-> FALSE]
    ELSE IF ~FileFilter(in.file)
    THEN [err |-> PlainError(OnlyImagesMsg), hasFile |-> FALSE]
    ELSE [err |-> NoErr, hasFile |-> TRUE]

\* upload.single('file'): the error handed to next(), or whether req.file is set.
\* A part under another field name is refused first, then fileFilter runs on
\* the part's header, then the size limit applies while the part is read.
MulterSingle(in) ==
    IF in.field = "none" THEN [err |-> NoErr, hasFile |-> FALSE]
    ELSE IF in.field # "file"
    THEN [err |-> MulterError("LIMIT_UNEXPECTED_FILE", "Unexpected field"), hasFile |-> FALSE]
    ELSE IF ~FileFilter(in.file)
    THEN [err |-> PlainError(OnlyImagesMsg), hasFile |-> FALSE]
    ELSE IF in.file.size > FileSizeLimit
    THEN [err |-> MulterError("LIMIT_FILE_SIZE", "File too large"), hasFile |-> FALSE]
    ELSE [err |-> NoErr, hasFile |-> TRUE]

\* app.use((err, req, res, next) => ...)
ErrorMiddleware(err) ==
    IF err.multer /\ err.code = "LIMIT_FILE_SIZE"
    THEN ErrorResponse(400, FileTooLargeMsg)
    ELSE IF err.message # "" /\ IncludesOnlyImages(err.message)
    THEN ErrorResponse(400, err.message)
    ELSE ErrorResponse(500, MsgOr(err.message, "Server error"))

(***************************************************************************)
(* The upload handler's pure steps.                                         *)
(***************************************************************************)
\* req.query?.userId || req.query?.user_id || req.body?.userId || req.body?.user_id
RawUserId(ids) ==
    OrElse(OrElse(OrElse(ids.qUserId, ids.qUser_id), ids.bUserId), ids.bUser_id)

\* the n-th value of randomUUID(): one token, distinct from every other string
RandomUUID(n) == <<"uuid#" \o ToString(n)>>

\* (rawUserId || randomUUID()).toString().replace(/\//g, '-')
UserId(rawUserId, n) == ReplaceSlashes(OrElse(rawUserId, RandomUUID(n)))

\* path.extname(req.file.originalname) || '.jpg'
ExtOf(file) == OrElse(Extname(file.originalname), DotJpg)

\* a key joined to the prefix with "-" instead of "/"
DeriveKeyDash(userId, ext) == PROFILE_PREFIX \o <<"-">> \o userId \o ext

\* `${PROFILE_PREFIX}/${userId}${ext}`
DeriveKey(userId, ext) == PROFILE_PREFIX \o <<"/">> \o userId \o ext

\* the mime handed to PutObjectCommand as ContentType
ResolveMime(mimetype, ext) ==
    IF mimetype # <<>> /\ ImagePrefixTest(mimetype) THEN mimetype
    ELSE IF ext = DotPng THEN ImagePng
    ELSE IF ext = DotGif THEN ImageGif
    ELSE IF ext = DotWebp THEN ImageWebp
    ELSE ImageJpeg

\* the base URL used as configured, its trailing slash kept
PublicUrlNoStrip(baseUrl, key) == baseUrl \o <<"/">> \o key

\* baseUrl.replace(/\/$/, '') + '/' + key
PublicUrl(baseUrl, key) == StripTrailingSlash(baseUrl) \o <<"/">> \o key

\* a put whose ContentType is read from a variable shared by the requests,
\* holding the mime of the request received last
PutObjectCommandSharedMime(r) ==
    [Key |-> req[r].key,
     Body |-> req[r].in.file.buffer,
     Size |-> req[r].in.file.size,
     ContentType |-> req[Len(req)].mime,
     CacheControl |-> CacheControl]

\* new PutObjectCommand({ Bucket, Key, Body, ContentType, CacheControl }) of request r
PutObjectCommand(r) ==
    [Key |-> req[r].key,
     Body |-> req[r].in.file.buffer,
     Size |-> req[r].in.file.size,
     ContentType |-> req[r].mime,
     CacheControl |-> CacheControl]

\* the bucket after the store has applied a put
StoreAfterPut(cmd) ==
    [k \in DOMAIN store \cup {cmd.Key} |->
        IF k = cmd.Key
        THEN [Body |-> cmd.Body, Size |-> cmd.Size,
              ContentType |-> cmd.ContentType, CacheControl |-> cmd.CacheControl]
        ELSE store[k]]

(***************************************************************************)
(* Inputs.                                                                  *)
(***************************************************************************)
NoIds == [qUserId |-> <<>>, qUser_id |-> <<>>, bUserId |-> <<>>, bUser_id |-> <<>>]
NoFile == [mimetype |-> <<>>, originalname |-> <<>>, size |-> 0, buffer |-> ""]

OctetStream == <<"a", "p", "p", "l", "i", "c", "a", "t", "i", "o", "n", "/",
                 "o", "c", "t", "e", "t", "-", "s", "t", "r", "e", "a", "m">>
TextPlain == <<"t", "e", "x", "t", "/", "p", "l", "a", "i", "n">>
TestUser1 == <<"t", "e", "s", "t", "-", "u", "s", "e", "r", "-", "1">>
TestJpg == <<"t", "e", "s", "t", ".", "j", "p", "g">>
UpperPng == <<"A", ".", "P", "N", "G">>
LowerPng == <<"a", ".", "p", "n", "g">>
NotesTxt == <<"n", "o", "t", "e", "s", ".", "t", "x", "t">>
CdnSlash == <<"h", "t", "t", "p", "s", ":", "/", "/", "c", "d", "n", "/">>

File(m, n, sz, b) == [mimetype |-> m, originalname |-> n, size |-> sz, buffer |-> b]

JpegFile == File(ImageJpeg, TestJpg, 10, "jpeg-bytes")
PjpegFile == File(ImagePjpeg, TestJpg, 10, "pjpeg-bytes")
PngFile == File(ImagePng, LowerPng, FileSizeLimit, "png-bytes")
HugeFile == File(ImagePng, LowerPng, FileSizeLimit + 1, "huge-bytes")
TextFile == File(TextPlain, NotesTxt, 10, "text-bytes")

WithUser == [NoIds EXCEPT !.qUserId = TestUser1]

Upload(field, file, ids) == [field |-> field, file |-> file, ids |-> ids]

\* The upload requests of the server model: two files with one identifier and
\* one extension, a third with that identifier and another extension, one with
\* no identifier, and one of each kind the gate refuses.
UploadInputs ==
    {Upload("file", JpegFile, WithUser),
     Upload("file", PjpegFile, WithUser),
     Upload("file", PngFile, WithUser),
     Upload("file", JpegFile, NoIds),
     Upload("file", TextFile, WithUser),
     Upload("file", HugeFile, WithUser),
     Upload("none", NoFile, WithUser),
     Upload("avatar", JpegFile, NoIds)}

BaseUrls == {<<>>, CdnSlash}

StorageErrors == {"AccessDenied"}

\* Wider inputs, for one request at a time.
UpperImagePng == <<"I", "M", "A", "G", "E", "/", "P", "N", "G">>
ImageSvg == <<"i", "m", "a", "g", "e", "/", "s", "v", "g", "+", "x", "m", "l">>
ShopifyGid == <<"g", "i", "d", ":", "/", "/", "s", "h", "o", "p", "i", "f", "y", "/",
                "C", "u", "s", "t", "o", "m", "e", "r", "/", "1", "2", "3">>

WideMimeTypes ==
    {ImageJpeg, ImageJpg, ImagePjpeg, ImagePng, ImageGif, ImageWebp,
     UpperImagePng, ImageSvg, OctetStream, TextPlain}

WideNames ==
    {TestJpg, LowerPng, UpperPng, NotesTxt,
     <<"b", ".", "j", "p", "e", "g">>, <<"c", ".", "g", "i", "f">>,
     <<"d", ".", "w", "e", "b", "p">>, <<"D", ".", "W", "e", "b", "P">>,
     <<"p", "h", "o", "t", "o">>, <<"p", "i", "c", ".">>, <<".", "p", "n", "g">>,
     <<"x", ".", "t", "a", "r", ".", "p", "n", "g">>}

WideSizes == {10, FileSizeLimit, FileSizeLimit + 1}

WideIds ==
    {NoIds,
     WithUser,
     [NoIds EXCEPT !.bUser_id = ShopifyGid],
     [NoIds EXCEPT !.qUser_id = <<"a", "/", "b">>, !.bUserId = TestUser1]}

WideUploadInputs ==
    {Upload("file", File(m, n, sz, "bytes"), i) :
        m \in WideMimeTypes, n \in WideNames, sz \in WideSizes, i \in WideIds}
    \cup {Upload("none", NoFile, WithUser), Upload("avatar", JpegFile, NoIds)}

WideBaseUrls ==
    {<<>>, <<"/">>, SubSeq(CdnSlash, 1, Len(CdnSlash) - 1), CdnSlash, CdnSlash \o <<"/">>}

WideStorageErrors == {"", "AccessDenied"}

(***************************************************************************)
(* State machine.                                                           *)
(***************************************************************************)
Request(kind, in) ==
    [kind |-> kind, in |-> in, pc |-> "new", key |-> <<>>, mime |-> <<>>,
     putCalls |-> 0, signCalls |-> 0, listCalls |-> 0, failed |-> "",
     responses |-> 0, res |-> NoResponse]

\* res.status(..).json(..): the request is answered
Respond(q, res) == [q EXCEPT !.pc = "done", !.responses = @ + 1, !.res = res]

InitWith(bases, errors) ==
    /\ proc = "starting"
    /\ env \in [complete : BOOLEAN, S3_PUBLIC_BASE_URL : bases]
    /\ store = [k \in {} |-> NoFile]
    /\ req = <<>>
    /\ uuids = 0
    /\ faults = errors

Init == InitWith(BaseUrls, StorageErrors)

\* the requiredEnv loop, then app.listen
Startup ==
    /\ proc = "starting"
    /\ proc' = IF env.complete THEN "listening" ELSE "exited"
    /\ UNCHANGED <<env, store, req, uuids, faults>>

\* POST /api/upload/profile-pic, up to the first await: multer, the missing-file
\* check, the key and the mime, and the put is issued
PostUpload(in) ==
    /\ proc = "listening"
    /\ Len(req) < MaxReq
    /\ LET m == MulterSingle(in)
           q == Request("upload", in)
           rawUserId == RawUserId(in.ids)
           userId == UserId(rawUserId, uuids + 1)
           ext == ExtOf(in.file)
       IN  IF m.err.isError
           THEN /\ req' = Append(req, Respond(q, ErrorMiddleware(m.err)))
                /\ UNCHANGED uuids
           ELSE IF ~m.hasFile
           THEN /\ req' = Append(req, Respond(q, ErrorResponse(400, NoFileMsg)))
                /\ UNCHANGED uuids
           ELSE /\ req' = Append(req, [q EXCEPT !.pc = "put",
                                                !.key = DeriveKey(userId, ext),
                                                !.mime = ResolveMime(in.file.mimetype, ext),
                                                !.putCalls = @ + 1])
                /\ uuids' = IF rawUserId = <<>> THEN uuids + 1 ELSE uuids
    /\ UNCHANGED <<proc, env, store, faults>>

\* the rest of the handler once the put has succeeded: the URL, and either the
\* 201 response or the getSignedUrl call
AfterPut(q) ==
    LET baseUrl == env.S3_PUBLIC_BASE_URL
    IN  IF baseUrl # <<>>
        THEN Respond(q, CreatedResponse(StaticUrl(PublicUrl(baseUrl, q.key)), q.key))
        ELSE [q EXCEPT !.pc = "sign", !.signCalls = @ + 1]

\* the store applies request r's put and s3Client.send resolves
PutSucceeds(r) ==
    /\ req[r].pc = "put"
    /\ store' = StoreAfterPut(PutObjectCommand(r))
    /\ req' = [req EXCEPT ![r] = AfterPut(@)]
    /\ UNCHANGED <<proc, env, uuids, faults>>

\* the catch block: res.status(500).json({ error: err.message || 'Upload failed' })
UploadCatch(q, msg) == Respond(q, ErrorResponse(500, MsgOr(msg, "Upload failed")))

\* a handler that issues the put again when it is rejected
PutFailsRetry(r) ==
    /\ req[r].pc = "put"
    /\ req' = [req EXCEPT ![r].putCalls = @ + 1]
    /\ UNCHANGED <<proc, env, store, uuids, faults>>

\* s3Client.send rejects: nothing is stored
PutFails(r) ==
    /\ req[r].pc = "put"
    /\ \E msg \in faults :
          req' = [req EXCEPT ![r] = UploadCatch([@ EXCEPT !.failed = "put"], msg)]
    /\ UNCHANGED <<proc, env, store, uuids, faults>>

\* getSignedUrl resolves, and the handler answers 201
SignSucceeds(r) ==
    /\ req[r].pc = "sign"
    /\ req' = [req EXCEPT ![r] =
                  Respond(@, CreatedResponse(SignedUrl(@.key, UploadExpiresIn), @.key))]
    /\ UNCHANGED <<proc, env, store, uuids, faults>>

\* getSignedUrl rejects
SignFails(r) ==
    /\ req[r].pc = "sign"
    /\ \E msg \in faults :
          req' = [req EXCEPT ![r] = UploadCatch([@ EXCEPT !.failed = "sign"], msg)]
    /\ UNCHANGED <<proc, env, store, uuids, faults>>

\* ListObjectsV2Command({ Bucket, Prefix, MaxKeys }): the keys under the prefix,
\* at most maxKeys of them
ListObjectsV2(prefix, maxKeys) ==
    LET under == {k \in DOMAIN store : StartsWith(k, prefix)}
    IN  IF Cardinality(under) <= maxKeys THEN under
        ELSE CHOOSE T \in SUBSET under : Cardinality(T) = maxKeys

\* (list.Contents || []).map(o => ({ key, size, lastModified, url }))
ListItems(contents) ==
    LET baseUrl == StripTrailingSlash(OrElse(env.S3_PUBLIC_BASE_URL, <<>>))
    IN  {[key |-> k, size |-> store[k].Size,
          url |-> IF baseUrl # <<>> THEN StaticUrl(baseUrl \o <<"/">> \o k) ELSE NullUrl]
         : k \in contents}

ListInput == [field |-> "none", file |-> NoFile, ids |-> NoIds]

\* GET /api/profile-pics: the list call resolves and the items are returned
GetProfilePics ==
    /\ proc = "listening"
    /\ Len(req) < MaxReq
    /\ LET q == [Request("list", ListInput) EXCEPT !.listCalls = @ + 1]
           contents == ListObjectsV2(PROFILE_PREFIX \o <<"/">>, MaxKeys)
       IN  req' = Append(req, Respond(q, ListResponse(PROFILE_PREFIX, ListItems(contents))))
    /\ UNCHANGED <<proc, env, store, uuids, faults>>

\* GET /api/profile-pics: the list call rejects
GetProfilePicsFails ==
    /\ proc = "listening"
    /\ Len(req) < MaxReq
    /\ \E msg \in faults :
          LET q == [Request("list", ListInput) EXCEPT !.listCalls = @ + 1, !.failed = "list"]
          IN  req' = Append(req, Respond(q, ErrorResponse(500, MsgOr(msg, "Failed to list"))))
    /\ UNCHANGED <<proc, env, store, uuids, faults>>

Next ==
    \/ Startup
    \/ \E in \in UploadInputs : PostUpload(in)
    \/ \E r \in DOMAIN req : PutSucceeds(r)
    \/ \E r \in DOMAIN req : PutFails(r)
    \/ \E r \in DOMAIN req : SignSucceeds(r)
    \/ \E r \in DOMAIN req : SignFails(r)
    \/ GetProfilePics
    \/ GetProfilePicsFails

Spec == Init /\ [][Next]_vars

(***************************************************************************)
(* One request, drawn from the wider inputs: the gate, the key derivation,  *)
(* the content type and the URL applied to a single upload.                 *)
(***************************************************************************)
InitSingle == InitWith(WideBaseUrls, WideStorageErrors)

PostSingleUpload ==
    /\ req = <<>>
    /\ \E in \in WideUploadInputs : PostUpload(in)

NextSingle ==
    \/ Startup
    \/ PostSingleUpload
    \/ \E r \in DOMAIN req : PutSucceeds(r)
    \/ \E r \in DOMAIN req : PutFails(r)
    \/ \E r \in DOMAIN req : SignSucceeds(r)
    \/ \E r \in DOMAIN req : SignFails(r)

SpecSingle == InitSingle /\ [][NextSingle]_vars

(***************************************************************************)
(* Properties.                                                              *)
(***************************************************************************)
Uploads == {r \in DOMAIN req : req[r].kind = "upload"}

\* the handler of request r reached its storage step
Accepted(r) == req[r].kind = "upload" /\ req[r].putCalls > 0

\* the store has applied the put of request r
PutApplied(r) == Accepted(r) /\ req[r].pc # "put" /\ req[r].failed # "put"

\* The type test and the size limit as the specification words them.
SpecMimeTypes == {ImageJpeg, ImageJpg, ImagePjpeg, ImagePng, ImageGif, ImageWebp}
SpecExtensions == {DotJpg, DotJpeg, DotPng, DotGif, DotWebp}
SpecTypeOk(file) ==
    \/ ToLowerCase(file.mimetype) \in SpecMimeTypes
    \/ ToLowerCase(Extname(file.originalname)) \in SpecExtensions
SpecSizeLimit == 5 * 1024 * 1024

C2_AllOrNothing ==
    \A r \in Uploads :
        req[r].pc = "done" =>
            \/ /\ req[r].res.status = 201
               /\ PutApplied(r)
               /\ req[r].res.body.url.kind \in {"static", "signed"}
            \/ /\ req[r].res.status \in {400, 500}
               /\ ~PutApplied(r)

\* C3: uploads that supply the same raw identifier derive the same key, the store
\* holds at most one object per supplied identifier, and an upload without an
\* identifier shares its key with no other upload.
C3_KeyFunctionOfIdentifier ==
    /\ \A r1, r2 \in Uploads :
          /\ Accepted(r1) /\ Accepted(r2)
          /\ RawUserId(req[r1].in.ids) # <<>>
          /\ RawUserId(req[r1].in.ids) = RawUserId(req[r2].in.ids)
          => req[r1].key = req[r2].key
    /\ \A r \in Uploads :
          Accepted(r) /\ RawUserId(req[r].in.ids) # <<>> =>
              Cardinality({req[o].key : o \in {o \in Uploads :
                  /\ PutApplied(o)
                  /\ RawUserId(req[o].in.ids) = RawUserId(req[r].in.ids)}}) <= 1
    /\ \A r1, r2 \in Uploads :
          /\ Accepted(r1) /\ Accepted(r2) /\ r1 # r2
          /\ RawUserId(req[r1].in.ids) = <<>>
          => req[r1].key # req[r2].key

\* the extension as the specification words it: lower-cased, ".jpg" when absent
SpecExtension(file) == OrElse(ToLowerCase(Extname(file.originalname)), DotJpg)

ShopifyPngKey ==
    <<"p", "r", "o", "f", "i", "l", "e", "-", "p", "i", "c", "s", "/", "g", "i", "d", ":",
      "-", "-", "s", "h", "o", "p", "i", "f", "y", "-", "C", "u", "s", "t", "o", "m", "e",
      "r", "-", "1", "2", "3", ".", "p", "n", "g">>

\* C4: the key of an accepted upload is prefix + "/" + identifier + extension, the
\* identifier being the raw identifier with "/" replaced by "-" or a fresh UUID,
\* the extension being the file name's extension lower-cased, or ".jpg".
C4_KeyFormat ==
    \A r \in Uploads :
        Accepted(r) =>
            LET raw == RawUserId(req[r].in.ids)
                ext == SpecExtension(req[r].in.file)
            IN  /\ raw # <<>> =>
                      req[r].key = PROFILE_PREFIX \o <<"/">> \o ReplaceSlashes(raw) \o ext
                /\ raw = <<>> =>
                      \E n \in 1..uuids :
                          req[r].key = PROFILE_PREFIX \o <<"/">> \o RandomUUID(n) \o ext
                /\ raw = ShopifyGid /\ req[r].in.file.originalname = LowerPng
                      => req[r].key = ShopifyPngKey

\* C5: a file passes the gate exactly when its content-type or its lower-cased
\* extension is an allowed one and it is at most 5 MiB long; a file failing the
\* type test gets 400 'Only images...', one that passes it and is longer than
\* 5 MiB gets 400 'File too large...'.
C5_ValidatorAcceptsIff ==
    \A r \in Uploads :
        req[r].in.field = "file" =>
            LET f == req[r].in.file
                typeOk == SpecTypeOk(f)
                sizeOk == f.size <= SpecSizeLimit
            IN  /\ Accepted(r) <=> (typeOk /\ sizeOk)
                /\ ~typeOk => req[r].res = ErrorResponse(400, OnlyImagesMsg)
                /\ typeOk /\ ~sizeOk => req[r].res = ErrorResponse(400, FileTooLargeMsg)

C5_Witness ==
    /\ \E r \in Uploads :
          /\ req[r].in.file.mimetype = OctetStream
          /\ req[r].in.file.originalname = UpperPng
          /\ req[r].in.file.size = FileSizeLimit
          /\ Accepted(r)

\* C6: an accepted upload whose put (and sign) succeed answers 201 with
\* success, the key the object is stored under and a URL: the base URL with one
\* trailing "/" removed + "/" + key and no sign call when a base URL is
\* configured, else a URL signed for that key with a lifetime of 6 days.
C6_CreatedResponse ==
    \A r \in Uploads :
        LET q == req[r]
            b == q.res.body
            base == env.S3_PUBLIC_BASE_URL
            stripped == IF base # <<>> /\ base[Len(base)] = "/"
                        THEN SubSeq(base, 1, Len(base) - 1) ELSE base
        IN  /\ Accepted(r) /\ q.pc = "done" /\ q.failed = "" => q.res.status = 201
            /\ q.res.status = 201 =>
                  /\ b.success
                  /\ b.key = q.key
                  /\ b.key \in DOMAIN store
                  /\ store[b.key].Body = q.in.file.buffer
                  /\ IF base # <<>>
                     THEN /\ b.url.kind = "static"
                          /\ b.url.str = stripped \o <<"/">> \o b.key
                          /\ q.signCalls = 0
                     ELSE /\ b.url.kind = "signed"
                          /\ b.url.key = b.key
                          /\ b.url.expiresIn = 6 * 24 * 60 * 60
                          /\ q.signCalls = 1

C6_Witness ==
    \E r \in Uploads :
        /\ req[r].res.status = 201
        /\ env.S3_PUBLIC_BASE_URL = CdnSlash \o <<"/">>
        /\ req[r].res.body.url.kind = "static"

\* C7: within one request the put and the sign call are each issued at most
\* once; a failed put is followed by no sign call and answered 500 at once;
\* a request gets one response, no more; the process keeps listening after a
\* failure and accepts the next request.
C7_NoRetryNotFatal ==
    /\ \A r \in DOMAIN req :
          LET q == req[r]
          IN  /\ q.putCalls <= 1
              /\ q.signCalls <= 1
              /\ q.responses <= 1
              /\ q.pc = "done" <=> q.responses = 1
              /\ q.failed = "put" =>
                    /\ q.signCalls = 0
                    /\ q.pc = "done"
                    /\ q.res.status = 500
                    /\ q.res.body.error # ""
              /\ q.failed = "sign" => q.pc = "done" /\ q.res.status = 500
    /\ req # <<>> => proc = "listening"
    /\ (\E r \in DOMAIN req : req[r].failed # "") /\ Len(req) < MaxReq
          => ENABLED (\E in \in UploadInputs : PostUpload(in))

C7_Witness ==
    \E r1, r2 \in Uploads :
        /\ r1 < r2
        /\ req[r1].failed = "put" /\ req[r1].res.status = 500
        /\ req[r2].res.status = 201

\* C8: two finished uploads with one key, neither of which met a storage
\* failure, are both answered 201 with that key, and the object under the key
\* has the bytes and the content-type of one and the same upload.
C8_ConcurrentSameKey ==
    \A r1, r2 \in Uploads :
        /\ r1 # r2
        /\ Accepted(r1) /\ Accepted(r2)
        /\ req[r1].key = req[r2].key
        /\ req[r1].pc = "done" /\ req[r2].pc = "done"
        /\ req[r1].failed = "" /\ req[r2].failed = ""
        => /\ req[r1].res.status = 201 /\ req[r1].res.body.key = req[r1].key
           /\ req[r2].res.status = 201 /\ req[r2].res.body.key = req[r1].key
           /\ req[r1].key \in DOMAIN store
           /\ \E o \in Uploads :
                 /\ PutApplied(o)
                 /\ req[o].key = req[r1].key
                 /\ store[req[r1].key].Body = req[o].in.file.buffer
                 /\ store[req[r1].key].ContentType = req[o].mime

\* the upload that arrived first is the one whose object remains
C8_Witness ==
    /\ Len(req) >= 2
    /\ req[1].in = Upload("file", JpegFile, WithUser)
    /\ req[2].in = Upload("file", PjpegFile, WithUser)
    /\ req[1].res.status = 201 /\ req[2].res.status = 201
    /\ req[1].key = req[2].key
    /\ store[req[1].key].Body = "jpeg-bytes"
    /\ store[req[1].key].ContentType = ImageJpeg

\* the upload that arrived last is the one whose object remains
C8_OtherOutcome ==
    /\ Len(req) >= 2
    /\ req[1].in = Upload("file", JpegFile, WithUser)
    /\ req[2].in = Upload("file", PjpegFile, WithUser)
    /\ req[1].res.status = 201 /\ req[2].res.status = 201
    /\ req[1].key = req[2].key
    /\ store[req[1].key].Body = "pjpeg-bytes"
    /\ store[req[1].key].ContentType = ImagePjpeg

\* a step in which GET /api/profile-pics is received and answered
ListStep == Len(req') = Len(req) + 1 /\ req'[Len(req')].kind = "list"

\* C9: a listing issues no put and no sign call and leaves the store alone; when
\* the list call succeeds it answers 200, and with at most 100 objects stored
\* its count is the number of stored objects, its items are the stored keys,
\* among them every key an upload has returned, every stored key lies under
\* prefix + "/", and an item's url is null when no base URL is configured and
\* otherwise, when not null, the base URL + "/" + key.
C9_Listing ==
    [][ListStep =>
        LET q == req'[Len(req')]
            b == q.res.body
            keys == {i.key : i \in b.items}
            base == env.S3_PUBLIC_BASE_URL
            stripped == IF base # <<>> /\ base[Len(base)] = "/"
                        THEN SubSeq(base, 1, Len(base) - 1) ELSE base
        IN  /\ q.putCalls = 0 /\ q.signCalls = 0 /\ q.responses = 1
            /\ store' = store
            /\ q.failed = "" => q.res.status = 200
            /\ q.res.status = 200 /\ Cardinality(DOMAIN store) <= 100 =>
                  /\ b.count = Cardinality(DOMAIN store)
                  /\ Cardinality(b.items) = b.count
                  /\ keys = DOMAIN store
                  /\ \A r \in Uploads : req[r].res.status = 201 => req[r].res.body.key \in keys
                  /\ \A k \in DOMAIN store : StartsWith(k, PROFILE_PREFIX \o <<"/">>)
                  /\ \A i \in b.items :
                        /\ base = <<>> => i.url.kind = "null"
                        /\ stripped # <<>> => i.url.kind = "static"
                        /\ i.url.kind # "null" =>
                              i.url.kind = "static" /\ i.url.str = stripped \o <<"/">> \o i.key
    ]_vars

C9_Witness ==
    \E l \in DOMAIN req :
        /\ req[l].kind = "list"
        /\ req[l].res.status = 200
        /\ req[l].res.body.count = 2
        /\ \E r1, r2 \in Uploads :
              /\ r1 < r2 /\ r2 < l
              /\ req[r1].res.status = 201 /\ req[r2].res.status = 201
              /\ {req[r1].res.body.key, req[r2].res.body.key}
                    = {i.key : i \in req[l].res.body.items}
              /\ req[r1].res.body.key # req[r2].res.body.key

\* C10: the content-type stored with an accepted upload is the declared one when
\* it begins with "image/", else image/png, image/gif or image/webp by the
\* lower-cased extension, else image/jpeg; so it always begins with "image/".
C10_StoredContentType ==
    \A r \in Uploads :
        Accepted(r) =>
            LET declared == req[r].in.file.mimetype
                ext == ToLowerCase(Extname(req[r].in.file.originalname))
                expected == IF StartsWith(declared, <<"i", "m", "a", "g", "e", "/">>) THEN declared
                            ELSE IF ext = DotPng THEN ImagePng
                            ELSE IF ext = DotGif THEN ImageGif
                            ELSE IF ext = DotWebp THEN ImageWebp
                            ELSE ImageJpeg
            IN  /\ req[r].mime = expected
                /\ PutApplied(r) =>
                      /\ store[req[r].key].ContentType = expected
                      /\ StartsWith(store[req[r].key].ContentType, <<"i", "m", "a", "g", "e", "/">>)

====
